---- MODULE Spec2Model ----
(***************************************************************************)
(* Model of the tos-alloc heap-based bump allocator (src/src/bump.rs).     *)
(*                                                                         *)
(* The allocator is a zero-sized type: all of its state is the cursor      *)
(* word ("position pointer") stored in the first usize of the heap region  *)
(* that the host reports through the tos_get_heap_region syscall.  Every   *)
(* call of alloc and usage queries the host again.                         *)
(*                                                                         *)
(* Addresses are usize values.  The model keeps the width: usize has       *)
(* AddrBits bits, saturating_add saturates at UsizeMax and the plain       *)
(* subtractions of usage() either panic (overflow checks compiled in, the  *)
(* debug profile) or wrap (the release profile).                           *)
(***************************************************************************)
EXTENDS Integers, Naturals, FiniteSets, Sequences, TLC

(***************************************************************************)
(* Bounds of the model.                                                    *)
(***************************************************************************)
AddrBits == 6
\* width of usize in bits

MaxSize == 9
\* largest Layout size requested

MaxAlignLog == 3
\* largest Layout alignment requested is 2^MaxAlignLog

MaxCalls == 3

\* number of callers that run alloc at the same time
NCallers == 2
\* number of alloc calls recorded in the history of a logged run

(***************************************************************************)
(* usize and the arithmetic the code uses.                                 *)
(***************************************************************************)
Modulus == 2 ^ AddrBits

UsizeMax == Modulus - 1

IsizeMax == (Modulus \div 2) - 1

Word == 0 .. UsizeMax

WordSize == 8
\* size_of::<usize>()

Null == 0
\* null_mut()

saturating_add(a, b) == IF a + b > UsizeMax THEN UsizeMax ELSE a + b

wrapping_sub(a, b) == (a - b + Modulus) % Modulus

\* x & !(align - 1) for a power of two align
AndNotMask(x, align) == x - (x % align)

\* round-up in unbounded arithmetic (used by the properties, not by the code)
RoundUp(x, align) == ((x + align - 1) \div align) * align

\* round-down in unbounded arithmetic (used by the properties)
RoundDown(x, align) == x - (x % align)

(***************************************************************************)
(* Inputs.  core::alloc::Layout guarantees that align is a power of two    *)
(* and that size rounded up to align does not exceed isize::MAX.           *)
(***************************************************************************)
Aligns == { 2 ^ k : k \in 0 .. MaxAlignLog }

LayoutValid(size, align) == RoundUp(size, align) <= IsizeMax

Layouts == { l \in [size : 0 .. MaxSize, align : Aligns] : LayoutValid(l.size, l.align) }

\* Values the host may write to the two output slots of tos_get_heap_region.
\* Bases are word aligned; one region lies low in the address space, one
\* ends at or beyond the top of it, one starts in its last word.
HeapStarts == { 0, 8, Modulus - 16, Modulus - 8 }

HeapSizes == { 0, 4, 8, 16 }

Regions == [start : HeapStarts, size : HeapSizes]

\* The requests of the runs that keep a history or vary the host's answer.
FewLayouts ==
    { l \in [size : { 1, 8, MaxSize }, align : { 1, 2 ^ MaxAlignLog }] :
        LayoutValid(l.size, l.align) }

\* The answers of a host whose answer varies: a failed query (zero length),
\* a failed query (zero base) and two regions.
VaryingRegions ==
    { r \in Regions : r.size \in { 0, 16 } /\ (r.start = 0 => r.size = 16)
                       /\ r.start # Modulus - 8 }

VARIABLES
    host,             \* what tos_get_heap_region reports: [start, size]
    mem,              \* the usize stored at each possible heap start
    halted,           \* "no", or why the program stopped: "panic", "fault"
    op,               \* last call: "none", "alloc", "usage", "dealloc", "write"
    layout,           \* Layout of the last alloc call
    seen,             \* region the last call got from the host
    pre,              \* mem before the last call
    ret,              \* result of the last call
    loads,            \* addresses the last call loaded a usize from
    stores,           \* addresses the last call stored a usize to
    log,              \* history of the alloc calls of a logged run
    everFailed,       \* some alloc call observed a failed host query
    firstRegion,      \* region of the first successful host query of alloc
    pc,               \* where each concurrent caller stands in alloc
    local,            \* each concurrent caller's local variable pos
    got,              \* the pointer alloc returned to each concurrent caller
    request,          \* the Layout all concurrent callers ask for
    raced             \* some caller loaded the cursor while another was in alloc

\* the state of the concurrent callers
threadvars == << pc, local, got, request, raced >>

vars == << host, mem, halted, op, layout, seen, pre, ret,
           loads, stores, log, everFailed, firstRegion,
           pc, local, got, request, raced >>

Callers == 1 .. NCallers


NoRegion == [start |-> 0, size |-> 0]

NoLayout == [size |-> 0, align |-> 1]

NoRet == [ptr |-> Null, used |-> 0, remaining |-> 0]

(***************************************************************************)
(* get_heap_region_syscall: the host writes the base and the length of     *)
(* the heap into the two output slots; the status it returns is ignored.   *)
(***************************************************************************)
\* Variant: the region of the first successful query is cached and reused.
get_heap_region_cached ==
    IF firstRegion # NoRegion
    THEN << firstRegion.start, firstRegion.size >>
    ELSE << host.start, host.size >>

get_heap_region_syscall == << host.start, host.size >>

\* Variant: the query counts as failed only when both outputs are zero.
SyscallFailedBothZero(heap_start, heap_size) == heap_start = 0 /\ heap_size = 0

\* heap_start == 0 || heap_size == 0
SyscallFailed(heap_start, heap_size) == heap_start = 0 \/ heap_size = 0

\* heap_start.saturating_add(heap_size)
heap_end(heap_start, heap_size) == saturating_add(heap_start, heap_size)

\* Variant: the cursor word is not skipped.
heap_bottomNoHeader(heap_start) == heap_start

\* heap_start.saturating_add(size_of::<usize>())
heap_bottom(heap_start) == saturating_add(heap_start, WordSize)

\* pos < heap_bottom || pos > heap_end
Corrupted(pos, heap_start, heap_size) ==
    pos < heap_bottom(heap_start) \/ pos > heap_end(heap_start, heap_size)

(***************************************************************************)
(* BumpAllocator::alloc after the host query succeeded.                    *)
(***************************************************************************)
\* let mut pos = *pos_ptr; if pos == 0 { pos = heap_bottom; }
InitialPos(word, heap_start) == IF word = 0 THEN heap_bottom(heap_start) ELSE word

\* if pos < heap_bottom || pos > heap_end { pos = heap_bottom; ... }
ValidatedPos(word, heap_start, heap_size) ==
    IF Corrupted(InitialPos(word, heap_start), heap_start, heap_size)
    THEN heap_bottom(heap_start)
    ELSE InitialPos(word, heap_start)

\* Variant: the mask is left out.
AlignPosNoMask(pos, align) == saturating_add(pos, align - 1)

\* pos = pos.saturating_add(align - 1) & !(align - 1)
AlignPos(pos, align) == AndNotMask(saturating_add(pos, align - 1), align)

\* let new_pos = pos.saturating_add(layout.size())
NewPos(pos, size) == saturating_add(pos, size)

\* Variant: a request that ends exactly at heap_end is refused.
OutOfMemoryOffByOne(pos, new_pos, end) == new_pos >= end \/ new_pos < pos

\* new_pos > heap_end || new_pos < pos
OutOfMemory(pos, new_pos, end) == new_pos > end \/ new_pos < pos

\* Variant: a refused request commits the aligned position.
allocCommitsPadding(word, heap_start, heap_size, size, align) ==
    LET pos     == AlignPos(ValidatedPos(word, heap_start, heap_size), align)
        new_pos == NewPos(pos, size)
        oom     == OutOfMemory(pos, new_pos, heap_end(heap_start, heap_size))
    IN  [ ptr    |-> IF oom THEN Null ELSE pos,
          word   |-> IF oom THEN pos ELSE new_pos,
          stored |-> TRUE ]

\* The whole body of alloc from the load of the cursor on: the pointer it
\* returns, the cursor word it leaves, and whether it stored to the word.
alloc(word, heap_start, heap_size, size, align) ==
    LET corrupt == Corrupted(InitialPos(word, heap_start), heap_start, heap_size)
        pos     == AlignPos(ValidatedPos(word, heap_start, heap_size), align)
        new_pos == NewPos(pos, size)
        oom     == OutOfMemory(pos, new_pos, heap_end(heap_start, heap_size))
    IN  [ ptr    |-> IF oom THEN Null ELSE pos,
          word   |-> IF ~oom THEN new_pos
                     ELSE IF corrupt THEN heap_bottom(heap_start)
                     ELSE word,
          stored |-> corrupt \/ ~oom ]

(***************************************************************************)
(* BumpAllocator::usage after the host query succeeded.  The subtraction   *)
(* heap_size - size_of::<usize>() is a plain `-`: it panics when overflow  *)
(* checks are compiled in (checks) and wraps otherwise; the build profile  *)
(* decides, so usage() enumerates both.                                    *)
(***************************************************************************)
Uninitialized(heap_size, checks) ==
    [ panic     |-> checks /\ heap_size < WordSize,
      used      |-> 0,
      remaining |-> wrapping_sub(heap_size, WordSize) ]

usage(word, heap_start, heap_size, checks) ==
    IF word = 0 THEN Uninitialized(heap_size, checks)
    ELSE IF Corrupted(word, heap_start, heap_size) THEN Uninitialized(heap_size, checks)
    ELSE [ panic     |-> FALSE,
           used      |-> word - heap_bottom(heap_start),
           remaining |-> heap_end(heap_start, heap_size) - word ]

\* usage() evaluates heap_size - size_of::<usize>() with heap_size below the
\* size of the word
Underflows(word, heap_start, heap_size) ==
    /\ word = 0 \/ Corrupted(word, heap_start, heap_size)
    /\ heap_size < WordSize

(***************************************************************************)
(* The cursor word occupies [heap_start, heap_start + 8).  When the region *)
(* the host reports is shorter than the word, the load reaches past the    *)
(* region: the host either faults the access or lets it through.           *)
(***************************************************************************)
WordInRegion(heap_start, heap_size) == heap_size >= WordSize

AccessOutcomes(heap_start, heap_size) ==
    IF WordInRegion(heap_start, heap_size) THEN { "ok" } ELSE { "ok", "fault" }

(***************************************************************************)
(* Initial state: the host has fixed its answer, the heap is zeroed, no    *)
(* call has been made yet.                                                 *)
(***************************************************************************)
Fresh ==
    /\ host \in Regions
    /\ mem = [a \in HeapStarts |-> 0]
    /\ halted = "no"
    /\ op = "none"
    /\ layout = NoLayout
    /\ seen = NoRegion
    /\ pre = mem
    /\ ret = NoRet
    /\ loads = {}
    /\ stores = {}
    /\ log = << >>
    /\ everFailed = FALSE
    /\ firstRegion = NoRegion
    /\ pc = [t \in Callers |-> "idle"]
    /\ local = [t \in Callers |-> 0]
    /\ got = [t \in Callers |-> Null]
    /\ raced = FALSE

\* no concurrent callers
Init == Fresh /\ request = NoLayout

\* The part of the state a call records about itself.
Call(name, l, region) ==
    /\ op' = name
    /\ layout' = l
    /\ seen' = region
    /\ pre' = mem

(***************************************************************************)
(* <BumpAllocator as GlobalAlloc>::alloc(layout), without the history.     *)
(***************************************************************************)
AllocStep(l) ==
    LET heap_start == get_heap_region_syscall[1]
        heap_size  == get_heap_region_syscall[2]
        pos_ptr    == heap_start
        r          == alloc(mem[pos_ptr], heap_start, heap_size, l.size, l.align)
    IN  /\ halted = "no"
        /\ Call("alloc", l, [start |-> heap_start, size |-> heap_size])
        /\ UNCHANGED << host, threadvars >>
        /\ IF SyscallFailed(heap_start, heap_size)
           THEN /\ ret' = NoRet
                /\ loads' = {}
                /\ stores' = {}
                /\ everFailed' = TRUE
                /\ UNCHANGED << mem, halted, firstRegion >>
           ELSE /\ everFailed' = everFailed
                /\ firstRegion' = IF firstRegion = NoRegion
                                  THEN [start |-> heap_start, size |-> heap_size]
                                  ELSE firstRegion
                /\ \E access \in AccessOutcomes(heap_start, heap_size) :
                      IF access = "fault"
                      THEN /\ halted' = "fault"
                           /\ ret' = NoRet
                           /\ loads' = { pos_ptr }
                           /\ stores' = {}
                           /\ UNCHANGED mem
                      ELSE /\ halted' = halted
                           /\ ret' = [NoRet EXCEPT !.ptr = r.ptr]
                           /\ loads' = { pos_ptr }
                           /\ stores' = IF r.stored THEN { pos_ptr } ELSE {}
                           /\ mem' = [mem EXCEPT ![pos_ptr] = r.word]

\* alloc in a run that keeps no history
Alloc == \E l \in Layouts : AllocStep(l) /\ UNCHANGED log

\* alloc with one of the few requests, no history
AllocFew == \E l \in FewLayouts : AllocStep(l) /\ UNCHANGED log

\* alloc in a logged run: the request and its result are appended to log
AllocLogged ==
    \E l \in FewLayouts :
        /\ Len(log) < MaxCalls
        /\ AllocStep(l)
        /\ log' = Append(log, [size |-> l.size, align |-> l.align, ptr |-> ret'.ptr,
                               done |-> halted' = "no"])

\* Variant: dealloc gives the whole heap back by clearing the cursor word.
DeallocRewinds ==
    /\ halted = "no"
    /\ Call("dealloc", NoLayout, NoRegion)
    /\ ret' = NoRet
    /\ loads' = {}
    /\ stores' = IF host.start # 0 THEN { host.start } ELSE {}
    /\ mem' = IF host.start # 0 THEN [mem EXCEPT ![host.start] = 0] ELSE mem
    /\ UNCHANGED << host, halted, log, everFailed, firstRegion, threadvars >>

(***************************************************************************)
(* <BumpAllocator as GlobalAlloc>::dealloc(ptr, layout): empty body.       *)
(***************************************************************************)
Dealloc ==
    \E l \in FewLayouts, ptr \in { heap_bottom(host.start), UsizeMax } :
        /\ halted = "no"
        /\ Call("dealloc", NoLayout, NoRegion)
        /\ ret' = NoRet
        /\ loads' = {}
        /\ stores' = {}
        /\ UNCHANGED << host, mem, halted, log, everFailed, firstRegion, threadvars >>

\* Variant: usage() repairs a corrupted cursor word the way alloc does.
UsageHeals ==
    LET heap_start == get_heap_region_syscall[1]
        heap_size  == get_heap_region_syscall[2]
        pos_ptr    == heap_start
        failed     == SyscallFailed(heap_start, heap_size)
        corrupt    == /\ ~failed
                      /\ mem[pos_ptr] # 0
                      /\ Corrupted(mem[pos_ptr], heap_start, heap_size)
        u          == usage(mem[pos_ptr], heap_start, heap_size, FALSE)
    IN  /\ halted = "no"
        /\ Call("usage", NoLayout, [start |-> heap_start, size |-> heap_size])
        /\ loads' = IF failed THEN {} ELSE { pos_ptr }
        /\ stores' = IF corrupt THEN { pos_ptr } ELSE {}
        /\ mem' = IF corrupt
                  THEN [mem EXCEPT ![pos_ptr] = heap_bottom(heap_start)]
                  ELSE mem
        /\ ret' = IF failed THEN NoRet
                  ELSE [NoRet EXCEPT !.used = u.used, !.remaining = u.remaining]
        /\ UNCHANGED << host, halted, log, everFailed, firstRegion, threadvars >>

(***************************************************************************)
(* BumpAllocator::usage().                                                 *)
(***************************************************************************)
Usage ==
    LET heap_start == get_heap_region_syscall[1]
        heap_size  == get_heap_region_syscall[2]
        pos_ptr    == heap_start
    IN  /\ halted = "no"
        /\ Call("usage", NoLayout, [start |-> heap_start, size |-> heap_size])
        /\ stores' = {}
        /\ UNCHANGED << host, mem, log, everFailed, firstRegion, threadvars >>
        /\ IF SyscallFailed(heap_start, heap_size)
           THEN /\ ret' = NoRet
                /\ loads' = {}
                /\ UNCHANGED halted
           ELSE /\ loads' = { pos_ptr }
                /\ \E access \in AccessOutcomes(heap_start, heap_size),
                      overflow_checks \in BOOLEAN :
                      LET u == usage(mem[pos_ptr], heap_start, heap_size, overflow_checks)
                      IN
                      IF access = "fault"
                      THEN halted' = "fault" /\ ret' = NoRet
                      ELSE IF u.panic
                      THEN halted' = "panic" /\ ret' = NoRet
                      ELSE /\ halted' = halted
                           /\ ret' = [NoRet EXCEPT !.used = u.used,
                                                   !.remaining = u.remaining]

(***************************************************************************)
(* The guest program stores a value of its choice into the first word of   *)
(* the heap (the heap is ordinary guest-writable memory).                  *)
(***************************************************************************)
GuestWrite ==
    \E v \in Word :
        /\ halted = "no"
        /\ host.start # 0
        /\ op' = "write"
        /\ layout' = NoLayout
        /\ seen' = NoRegion
        /\ mem' = [mem EXCEPT ![host.start] = v]
        /\ pre' = mem'
        /\ ret' = NoRet
        /\ loads' = {}
        /\ stores' = {}
        /\ UNCHANGED << host, halted, log, everFailed, firstRegion, threadvars >>

(***************************************************************************)
(* The host changes what its region query answers.                         *)
(***************************************************************************)
HostChange ==
    \E r \in VaryingRegions :
        /\ halted = "no"
        /\ r # host
        /\ host' = r
        /\ Call("host", NoLayout, NoRegion)
        /\ ret' = NoRet
        /\ loads' = {}
        /\ stores' = {}
        /\ UNCHANGED << mem, halted, log, everFailed, firstRegion, threadvars >>

\* One guest invocation: the host's answer is fixed, the guest calls the
\* allocator and may write to the cursor word.
Next == Alloc \/ Dealloc \/ Usage \/ GuestWrite

Spec == Init /\ [][Next]_vars

\* A run from a zeroed heap with no write to the cursor word by the guest,
\* which records its alloc calls.
NextSeq == AllocLogged \/ Dealloc \/ Usage

SpecSeq == Init /\ [][NextSeq]_vars

\* A run in which the host's answer varies between calls.
InitHost == Init /\ host \in VaryingRegions

NextHost == AllocFew \/ Dealloc \/ Usage \/ HostChange

SpecHost == InitHost /\ [][NextHost]_vars

(***************************************************************************)
(* alloc run by several callers at once.  The cursor is a plain usize read *)
(* with `*pos_ptr` and written with `*pos_ptr = ...`: there is no atomic   *)
(* operation and no lock, so the calls interleave at the accesses to the   *)
(* word.  A step of a caller is one access together with the local         *)
(* computation that precedes it.                                           *)
(***************************************************************************)
\* the state the concurrent callers leave alone
callvars == << host, op, layout, seen, pre, ret, loads, stores, log,
               everFailed, firstRegion, request >>

\* the host query and `let mut pos = *pos_ptr;`
ConcLoad(t) ==
    LET heap_start == get_heap_region_syscall[1]
        heap_size  == get_heap_region_syscall[2]
        pos_ptr    == heap_start
    IN  /\ halted = "no"
        /\ pc[t] = "idle"
        /\ raced' = (raced \/ \E u \in Callers \ { t } : pc[u] \in { "loaded", "valid" })
        /\ UNCHANGED << mem, callvars >>
        /\ IF SyscallFailed(heap_start, heap_size)
           THEN /\ pc' = [pc EXCEPT ![t] = "done"]
                /\ got' = [got EXCEPT ![t] = Null]
                /\ UNCHANGED << local, halted >>
           ELSE \E access \in AccessOutcomes(heap_start, heap_size) :
                   IF access = "fault"
                   THEN /\ halted' = "fault"
                        /\ UNCHANGED << pc, local, got >>
                   ELSE /\ pc' = [pc EXCEPT ![t] = "loaded"]
                        /\ local' = [local EXCEPT ![t] = mem[pos_ptr]]
                        /\ UNCHANGED << got, halted >>

\* if pos < heap_bottom || pos > heap_end { pos = heap_bottom; *pos_ptr = pos; }
ConcReset(t) ==
    LET heap_start == get_heap_region_syscall[1]
        heap_size  == get_heap_region_syscall[2]
        pos_ptr    == heap_start
    IN  /\ halted = "no"
        /\ pc[t] = "loaded"
        /\ Corrupted(InitialPos(local[t], heap_start), heap_start, heap_size)
        /\ pc' = [pc EXCEPT ![t] = "valid"]
        /\ local' = [local EXCEPT ![t] = heap_bottom(heap_start)]
        /\ mem' = [mem EXCEPT ![pos_ptr] = heap_bottom(heap_start)]
        /\ UNCHANGED << got, raced, halted, callvars >>

\* Variant: the new position is not written back.
ConcCommitNoStore(t) ==
    LET heap_start == get_heap_region_syscall[1]
        heap_size  == get_heap_region_syscall[2]
        pos        == AlignPos(InitialPos(local[t], heap_start), request.align)
        new_pos    == NewPos(pos, request.size)
        oom        == OutOfMemory(pos, new_pos, heap_end(heap_start, heap_size))
    IN  /\ halted = "no"
        /\ \/ pc[t] = "valid"
           \/ /\ pc[t] = "loaded"
              /\ ~Corrupted(InitialPos(local[t], heap_start), heap_start, heap_size)
        /\ pc' = [pc EXCEPT ![t] = "done"]
        /\ got' = [got EXCEPT ![t] = IF oom THEN Null ELSE pos]
        /\ UNCHANGED << mem, local, raced, halted, callvars >>

\* the alignment, the bounds check, `*pos_ptr = new_pos;` and the return
ConcCommit(t) ==
    LET heap_start == get_heap_region_syscall[1]
        heap_size  == get_heap_region_syscall[2]
        pos_ptr    == heap_start
        pos        == AlignPos(InitialPos(local[t], heap_start), request.align)
        new_pos    == NewPos(pos, request.size)
        oom        == OutOfMemory(pos, new_pos, heap_end(heap_start, heap_size))
    IN  /\ halted = "no"
        /\ \/ pc[t] = "valid"
           \/ /\ pc[t] = "loaded"
              /\ ~Corrupted(InitialPos(local[t], heap_start), heap_start, heap_size)
        /\ pc' = [pc EXCEPT ![t] = "done"]
        /\ got' = [got EXCEPT ![t] = IF oom THEN Null ELSE pos]
        /\ mem' = IF oom THEN mem ELSE [mem EXCEPT ![pos_ptr] = new_pos]
        /\ UNCHANGED << local, raced, halted, callvars >>

\* NCallers callers on a zeroed heap, all asking for the same Layout
InitConc == Fresh /\ request \in FewLayouts

NextConc == \E t \in Callers : ConcLoad(t) \/ ConcReset(t) \/ ConcCommit(t)

SpecConc == InitConc /\ [][NextConc]_vars

(***************************************************************************)
(* Vocabulary of the properties.                                           *)
(***************************************************************************)
\* the last call was alloc and it returned
AllocReturned == op = "alloc" /\ halted = "no"

\* the last call's host query reported a nonzero base and a nonzero length
Resolved == seen.start # 0 /\ seen.size # 0

\* the last call was alloc and it returned an address
Granted == AllocReturned /\ Resolved /\ ret.ptr # Null

\* the cursor word the last call started from
PreWord == pre[seen.start]

\* [a, a + size) lies in the usable part of the region [base + 8, base + length)
InUsableRegion(a, size, region) ==
    /\ region.start + WordSize <= a
    /\ a + size <= region.start + region.size

\* the byte ranges [a, a + s) and [b, b + t) share a byte
Overlap(a, s, b, t) == s > 0 /\ t > 0 /\ a < b + t /\ b < a + s

\* the region lies in the lower half of the address space: align is at most
\* isize::MAX + 1 and size at most isize::MAX, so no saturating_add of alloc
\* saturates while the position is still inside the region
EndsBelowTop(region) == region.start + region.size <= IsizeMax + 1

(***************************************************************************)
(* C1: every address alloc returns lies in the usable region:              *)
(* base + 8 <= a and a + size <= base + length, for every nonzero region,  *)
(* every cursor word and every request.                                    *)
(***************************************************************************)
C1_ReturnedInBounds ==
    Granted => InUsableRegion(ret.ptr, layout.size, seen)

(***************************************************************************)
(* C2: from an uninitialized cursor and with no write to the cursor word   *)
(* by the guest, the byte ranges of the successful allocations on one      *)
(* region are pairwise non-overlapping.                                    *)
(***************************************************************************)
C2_PairwiseDisjoint ==
    \A i, j \in 1 .. Len(log) :
        (i < j /\ log[i].ptr # Null /\ log[j].ptr # Null)
            => ~Overlap(log[i].ptr, log[i].size, log[j].ptr, log[j].size)

(***************************************************************************)
(* C3: every address alloc returns is a multiple of the requested align,   *)
(* for every size and every cursor word the call starts from.              *)
(***************************************************************************)
C3_Aligned ==
    Granted => ret.ptr % layout.align = 0

\* an allocation that had to skip padding to reach the alignment
C3_Witness ==
    /\ Granted
    /\ layout.align = 8
    /\ ~Corrupted(PreWord, seen.start, seen.size)
    /\ PreWord % 8 # 0
    /\ ret.ptr > PreWord

\* an allocation from a forged cursor word, with a zero size
C3_WitnessForged ==
    /\ Granted
    /\ layout.size = 0
    /\ layout.align = 4
    /\ PreWord # 0
    /\ Corrupted(PreWord, seen.start, seen.size)

(***************************************************************************)
(* C4: when the cursor word holds a value outside [base + 8, base +        *)
(* length], alloc behaves as on a freshly reset cursor: it returns what    *)
(* the same request returns with the cursor at the starting boundary, the  *)
(* address is in bounds, and it is not computed from the forged value.     *)
(***************************************************************************)
ForgedCall ==
    /\ AllocReturned
    /\ Resolved
    /\ (PreWord < seen.start + WordSize \/ PreWord > seen.start + seen.size)

C4_ForgedActsFresh ==
    ForgedCall =>
        /\ ret.ptr = alloc(heap_bottom(seen.start), seen.start, seen.size,
                           layout.size, layout.align).ptr
        /\ ret.ptr # Null => InUsableRegion(ret.ptr, layout.size, seen)

\* the part of C4 that compares with the fresh cursor, without the bounds
C4_SameAsFresh ==
    ForgedCall =>
        ret.ptr = alloc(heap_bottom(seen.start), seen.start, seen.size,
                        layout.size, layout.align).ptr

\* C1 and C4 restricted to the regions that end below the top of the
\* address space
C1_BelowTop ==
    (Granted /\ EndsBelowTop(seen)) => InUsableRegion(ret.ptr, layout.size, seen)

C2_BelowTop ==
    EndsBelowTop(host) => C2_PairwiseDisjoint

(***************************************************************************)
(* The bump in unbounded arithmetic, from the requests of the log alone:   *)
(* the cursor after the first n requests when each of them is placed at    *)
(* the next multiple of its align.                                         *)
(***************************************************************************)
RECURSIVE IdealCursor(_)
IdealCursor(n) ==
    IF n = 0 THEN host.start + WordSize
    ELSE RoundUp(IdealCursor(n - 1), log[n].align) + log[n].size

\* the first n requests, with their padding, fit in the region
Fits(n) == IdealCursor(n) <= host.start + host.size

RECURSIVE SumSizes(_)
SumSizes(n) == IF n = 0 THEN 0 ELSE SumSizes(n - 1) + log[n].size

\* region length minus the reserved cursor word
Capacity(region) == region.size - WordSize

HostResolved == host.start # 0 /\ host.size # 0

(***************************************************************************)
(* C5: on a fresh region every request succeeds as long as the cumulative  *)
(* sum of the requested sizes is at most capacity (length - 8), and the    *)
(* first request that makes the cumulative size exceed capacity returns    *)
(* none.  Stated for the regions in the lower half of the address space,   *)
(* where no addition of alloc saturates: the claim fails there already.    *)
(***************************************************************************)
C5_CumulativeSizes ==
    (HostResolved /\ EndsBelowTop(host)) =>
        \A n \in 1 .. Len(log) :
            /\ SumSizes(n) <= Capacity(host) => log[n].ptr # Null
            /\ (SumSizes(n - 1) <= Capacity(host) /\ SumSizes(n) > Capacity(host))
                   => log[n].ptr = Null

(***************************************************************************)
(* C5 as amended: the alignment padding counts.  Every request succeeds    *)
(* as long as the cumulative sum of the requested sizes plus the padding   *)
(* in front of each request is at most capacity; in a region in the lower  *)
(* half of the address space the first request that makes this total       *)
(* exceed capacity returns none.                                           *)
(***************************************************************************)
C5_CumulativePadded ==
    HostResolved =>
        \A n \in 1 .. Len(log) :
            /\ (log[n].done /\ Fits(n)) => log[n].ptr # Null
            /\ (EndsBelowTop(host) /\ Fits(n - 1) /\ ~Fits(n)) => log[n].ptr = Null

\* a request refused because of its padding although the sizes alone fit,
\* after a request that succeeded
C5_Witness ==
    /\ HostResolved
    /\ EndsBelowTop(host)
    /\ Len(log) = 2
    /\ Fits(1) /\ log[1].ptr # Null
    /\ ~Fits(2) /\ log[2].ptr = Null
    /\ SumSizes(2) <= Capacity(host)

(***************************************************************************)
(* C6: for every region with nonzero base and length and in every state,   *)
(* usage() returns (used, remaining) with used + remaining = length - 8,   *)
(* and neither value exceeds that capacity.                                *)
(***************************************************************************)
C6_UsageSumsToCapacity ==
    (op = "usage" /\ Resolved) =>
        /\ halted = "no"
        /\ ret.used + ret.remaining = Capacity(seen)
        /\ ret.used <= Capacity(seen)
        /\ ret.remaining <= Capacity(seen)

\* C6 restricted to regions that hold the cursor word and lie in the lower
\* half of the address space
C6_BelowTop ==
    (op = "usage" /\ Resolved /\ EndsBelowTop(seen) /\ seen.size >= WordSize) =>
        /\ halted = "no"
        /\ ret.used + ret.remaining = Capacity(seen)
        /\ ret.used <= Capacity(seen)
        /\ ret.remaining <= Capacity(seen)

(***************************************************************************)
(* C7: an alloc that returns none leaves usage() unchanged: what usage()   *)
(* reports right after the failed call is what it reported right before.   *)
(***************************************************************************)
C7_FailedAllocKeepsUsage ==
    (AllocReturned /\ Resolved /\ ret.ptr = Null) =>
        \A checks \in BOOLEAN :
            usage(mem[seen.start], seen.start, seen.size, checks)
                = usage(PreWord, seen.start, seen.size, checks)

\* a refused request that needed padding, from a cursor inside the region
C7_Witness ==
    /\ AllocReturned /\ Resolved /\ ret.ptr = Null
    /\ EndsBelowTop(seen)
    /\ PreWord # 0
    /\ ~Corrupted(PreWord, seen.start, seen.size)
    /\ PreWord % layout.align # 0
    /\ PreWord + layout.size <= seen.start + seen.size

(***************************************************************************)
(* C8: on a fresh region the first alloc is served from the top of the     *)
(* region growing downward: it returns round-down(base + length - size,    *)
(* align) (0x300007FD8 for base 0x300000000, length 32768, size 40, align  *)
(* 8), and usage() afterwards reports used = size, remaining = capacity -  *)
(* size (40 and 32720).                                                    *)
(***************************************************************************)
C8_FirstAllocFromTop ==
    (HostResolved /\ EndsBelowTop(host) /\ Len(log) >= 1 /\ log[1].ptr # Null) =>
        log[1].ptr = RoundDown(host.start + host.size - log[1].size, log[1].align)

(***************************************************************************)
(* C8 as amended: the first alloc on a fresh region (in the lower half of  *)
(* the address space, as the region of the example is) is served from the  *)
(* bottom of the region growing upward: it returns round-up(base + 8,      *)
(* align) when that address plus size is at most base + length, and none   *)
(* otherwise; usage() afterwards reports used = returned address + size -  *)
(* (base + 8) and remaining = base + length - (returned address + size).   *)
(* For base 0x300000000, length 32768, size 40, align 8 that is the        *)
(* address 0x300000008, used = 40, remaining = 32720.                      *)
(***************************************************************************)
C8_FirstAllocFromBottom ==
    (HostResolved /\ EndsBelowTop(host) /\ Len(log) = 1 /\ log[1].done) =>
        LET a   == RoundUp(host.start + WordSize, log[1].align)
            top == host.start + host.size
        IN  IF a + log[1].size <= top
            THEN /\ log[1].ptr = a
                 /\ \A checks \in BOOLEAN :
                        usage(mem[host.start], host.start, host.size, checks)
                            = [ panic     |-> FALSE,
                                used      |-> a + log[1].size - (host.start + WordSize),
                                remaining |-> top - (a + log[1].size) ]
            ELSE log[1].ptr = Null

\* the scenario of the example in small: a word-aligned base, align 8, a
\* size below capacity; the address is base + 8 and usage() has just
\* reported (size, capacity - size)
C8_Witness ==
    /\ HostResolved /\ EndsBelowTop(host)
    /\ host.start % WordSize = 0
    /\ Len(log) = 1
    /\ log[1].align = 8 /\ log[1].size = 1
    /\ log[1].ptr = host.start + WordSize
    /\ op = "usage" /\ halted = "no"
    /\ ret.used = log[1].size
    /\ ret.remaining = Capacity(host) - log[1].size
    /\ ret.remaining > 0

(***************************************************************************)
(* C9: when the host query yields a zero base or a zero length, alloc      *)
(* returns none and usage returns (0, 0), and neither call reads or        *)
(* writes the cursor word or any other memory.                             *)
(***************************************************************************)
C9_FailedQueryTouchesNothing ==
    ((op = "alloc" \/ op = "usage") /\ ~Resolved) =>
        /\ halted = "no"
        /\ ret = NoRet
        /\ loads = {}
        /\ stores = {}
        /\ mem = pre

\* alloc after a query that reported a base but a zero length, while the
\* word at that base holds a value the guest wrote
C9_Witness ==
    /\ op = "alloc"
    /\ seen.start # 0 /\ seen.size = 0
    /\ mem[seen.start] # 0
    /\ ret.ptr = Null

(***************************************************************************)
(* C10: region resolution failure is permanent: once an alloc call has     *)
(* observed a failed host query every later alloc returns none, whatever   *)
(* the host answers afterwards; and once a query has succeeded the same    *)
(* region is used for all later calls.                                     *)
(***************************************************************************)
C10_ResolutionIsPermanent ==
    op = "alloc" =>
        /\ everFailed => ret.ptr = Null
        /\ firstRegion # NoRegion => (Resolved => seen = firstRegion)

(***************************************************************************)
(* C10 as amended: nothing about the region is remembered between calls.   *)
(* Every alloc call queries the host again; it returns none without        *)
(* touching memory when its own query yields a zero base or length, and    *)
(* otherwise it works on the cursor word of the region its own query       *)
(* reported, whatever earlier queries returned: it returns the cursor      *)
(* rounded up to align when the request fits that region (for a region in  *)
(* the lower half of the address space) and none when it does not.         *)
(***************************************************************************)
C10_ResolutionIsPerCall ==
    AllocReturned =>
        /\ seen = host
        /\ ~Resolved => (ret.ptr = Null /\ loads = {} /\ stores = {})
        /\ Resolved => loads = { seen.start }
        /\ (Resolved /\ EndsBelowTop(seen)) =>
               LET c == IF PreWord < seen.start + WordSize
                           \/ PreWord > seen.start + seen.size
                        THEN seen.start + WordSize
                        ELSE PreWord
                   a == RoundUp(c, layout.align)
               IN  ret.ptr = IF a + layout.size <= seen.start + seen.size
                             THEN a ELSE Null

\* an alloc that succeeds after an earlier alloc observed a failed query,
\* on a region other than the one first resolved
C10_Witness ==
    /\ Granted
    /\ everFailed
    /\ firstRegion # NoRegion
    /\ seen # firstRegion
    /\ EndsBelowTop(seen)

(***************************************************************************)
(* C11: arithmetic overflow in the address computation is treated as out   *)
(* of memory: whenever round-up(cursor, align) or round-up(cursor, align)  *)
(* + size exceeds the largest representable address, alloc returns none    *)
(* and commits nothing (the cursor word keeps its value, or the boundary   *)
(* a corrupted word was reset to), also when base + length reaches or      *)
(* exceeds the top of the address space.                                   *)
(***************************************************************************)
C11_OverflowIsOutOfMemory ==
    (AllocReturned /\ Resolved) =>
        LET c == ValidatedPos(PreWord, seen.start, seen.size)
            a == RoundUp(c, layout.align)
        IN  (a > UsizeMax \/ a + layout.size > UsizeMax) =>
                /\ ret.ptr = Null
                /\ mem[seen.start] \in { PreWord, c }

(***************************************************************************)
(* C12: dealloc is a no-op in every state and for every argument: it       *)
(* leaves the cursor word (and all memory) unchanged and accesses nothing, *)
(* so usage() and every later alloc see the state they would have seen     *)
(* without the call.                                                       *)
(***************************************************************************)
C12_DeallocIsNoOp ==
    op = "dealloc" =>
        /\ mem = pre
        /\ loads = {}
        /\ stores = {}
        /\ halted = "no"

\* a dealloc after allocations have advanced the cursor of a resolved region
C12_Witness ==
    /\ op = "dealloc"
    /\ HostResolved
    /\ ~Corrupted(mem[host.start], host.start, host.size)
    /\ mem[host.start] > heap_bottom(host.start)

(***************************************************************************)
(* C13: usage() is read-only: in every state, an uninitialized or a        *)
(* corrupted cursor included, it leaves the cursor word unchanged and      *)
(* stores nothing.                                                         *)
(***************************************************************************)
C13_UsageIsReadOnly ==
    op = "usage" =>
        /\ mem = pre
        /\ stores = {}

\* a usage() call that found a corrupted, nonzero cursor word
C13_Witness ==
    /\ op = "usage"
    /\ Resolved
    /\ halted = "no"
    /\ PreWord # 0
    /\ Corrupted(PreWord, seen.start, seen.size)
    /\ EndsBelowTop(seen)
    /\ seen.size >= WordSize

(***************************************************************************)
(* C14: usage() is callable before any allocation: while the cursor word   *)
(* is 0 and the region resolves (nonzero base and length), usage()         *)
(* returns (0, length - 8).                                                *)
(***************************************************************************)
C14_UsageBeforeAlloc ==
    (op = "usage" /\ Resolved /\ PreWord = 0) =>
        /\ halted = "no"
        /\ ret.used = 0
        /\ ret.remaining = seen.size - WordSize

\* C14 on the regions that hold the cursor word
C14_WordFits ==
    (op = "usage" /\ Resolved /\ PreWord = 0 /\ seen.size >= WordSize) =>
        /\ halted = "no"
        /\ ret.used = 0
        /\ ret.remaining = seen.size - WordSize

(***************************************************************************)
(* C15: N concurrent callers of alloc on one region, each asking for the   *)
(* same size, their loads and stores of the cursor interleaved in any      *)
(* way: the addresses returned are those of the same N requests run one    *)
(* after the other, no two callers receive overlapping memory and no space *)
(* is lost.  Stated for the regions in the lower half of the address       *)
(* space, where a sequential run grants disjoint ranges.                   *)
(***************************************************************************)
\* every caller's alloc has returned
AllDone == halted = "no" /\ \A t \in Callers : pc[t] = "done"

RECURSIVE SeqWord(_)
\* the cursor word after n calls of alloc(request) in a row on the zeroed heap
SeqWord(n) ==
    IF n = 0 THEN 0
    ELSE alloc(SeqWord(n - 1), host.start, host.size, request.size, request.align).word

\* what the n-th call of alloc(request) in a row returns
SeqPtr(n) ==
    alloc(SeqWord(n - 1), host.start, host.size, request.size, request.align).ptr

\* the callers got what the calls of a sequential run get, in some order
AsSequential ==
    /\ \E f \in [Callers -> Callers] :
          /\ \A t, u \in Callers : f[t] = f[u] => t = u
          /\ \A t \in Callers : got[t] = SeqPtr(f[t])
    /\ mem[host.start] = SeqWord(NCallers)

\* no two callers hold overlapping memory
CallersDisjoint ==
    \A t, u \in Callers :
        (t # u /\ got[t] # Null /\ got[u] # Null)
            => ~Overlap(got[t], request.size, got[u], request.size)

C15_ConcurrentAsSequential ==
    (AllDone /\ HostResolved /\ EndsBelowTop(host)) =>
        AsSequential /\ CallersDisjoint

(***************************************************************************)
(* C15, amended: the cursor is read and written with plain loads and       *)
(* stores, so the equivalence holds for the calls that do not interleave:  *)
(* if no caller loads the cursor while another caller is between its load  *)
(* and its return, the callers get what a sequential run gets and leave    *)
(* the cursor a sequential run leaves, and on a region in the lower half   *)
(* of the address space no two of them hold overlapping memory.            *)
(***************************************************************************)
C15_SerialAsSequential ==
    (AllDone /\ HostResolved /\ ~raced) =>
        /\ AsSequential
        /\ EndsBelowTop(host) => CallersDisjoint

\* every caller was granted memory in calls that did not interleave
C15_Witness ==
    /\ AllDone
    /\ HostResolved
    /\ EndsBelowTop(host)
    /\ ~raced
    /\ request.size > 0
    /\ \A t \in Callers : got[t] # Null

(***************************************************************************)
(* C16: upward bump step: a successful alloc(size, align) that starts from *)
(* the validated cursor c (c = base + 8 when the cursor word is 0 or out   *)
(* of [base + 8, base + length]) returns the least multiple of align that  *)
(* is >= c and stores exactly that address + size as the new cursor.       *)
(***************************************************************************)
C16_UpwardBumpStep ==
    Granted =>
        LET c == IF \/ PreWord = 0
                    \/ PreWord < seen.start + WordSize
                    \/ PreWord > seen.start + seen.size
                 THEN seen.start + WordSize
                 ELSE PreWord
            a == RoundUp(c, layout.align)
        IN  /\ ret.ptr = a
            /\ mem[seen.start] = a + layout.size

(***************************************************************************)
(* C17: cursor-range invariant: after every alloc call that resolved the   *)
(* region and returned, with an address or with null, the cursor word is 0 *)
(* or lies in [base + 8, base + length].                                   *)
(***************************************************************************)
C17_CursorInRange ==
    (AllocReturned /\ Resolved) =>
        \/ mem[seen.start] = 0
        \/ /\ seen.start + WordSize <= mem[seen.start]
           /\ mem[seen.start] <= seen.start + seen.size

(***************************************************************************)
(* C18: with no write to the cursor word from outside the allocator, the   *)
(* stored cursor never decreases once it is nonzero, over any sequence of  *)
(* alloc, dealloc and usage calls; so what usage() reports as used never   *)
(* decreases and what it reports as remaining never increases.             *)
(***************************************************************************)
C18_CursorMonotone ==
    [][ HostResolved =>
          LET b  == host.start
              u  == usage(mem[b], b, host.size, FALSE)
              u2 == usage(mem'[b], b, host.size, FALSE)
          IN  /\ mem[b] # 0 => mem'[b] >= mem[b]
              /\ u2.used >= u.used
              /\ u2.remaining <= u.remaining ]_vars

(***************************************************************************)
(* C19: alloc and usage read and write nothing but the 8-byte cursor word  *)
(* at [base, base + 8); that word lies inside the region [base, base +     *)
(* length) the host reported, for every nonzero base and nonzero length,   *)
(* lengths below 8 included; and the calls complete without arithmetic     *)
(* underflow.                                                              *)
(***************************************************************************)
C19_OnlyCursorWordInRegion ==
    (op \in { "alloc", "usage" } /\ Resolved) =>
        /\ loads \cup stores \subseteq { seen.start }
        /\ \A p \in loads \cup stores : p + WordSize <= seen.start + seen.size
        /\ halted = "no"
        /\ op = "usage" => ~Underflows(PreWord, seen.start, seen.size)

====
